---- MODULE Spec2Model ----
(***************************************************************************)
(* Versioned help loaders of azure.cli.core._help_loaders.                 *)
(*                                                                         *)
(* Python strings on which the code does character work (split,           *)
(* startswith, join, equality of names) are sequences of one-character     *)
(* strings.  Opaque text (summaries, descriptions, ...) is a TLA+ string,  *)
(* "" being the falsy one.  A Python dict is a function whose DOMAIN is    *)
(* its key set, so that a missing key (KeyError) differs from a falsy      *)
(* value.                                                                  *)
(***************************************************************************)
EXTENDS Integers, Sequences, FiniteSets, TLC

VARIABLES
    pc,             \* position inside the current call
    loader,         \* declared version of the loader the call is made on
    entry_point,    \* what the caller is doing: "versioned_load" or "dispatch"
    data,           \* self._data of the loader of each version
    is_applicable,  \* what _data_is_applicable last returned on each loader
    prog,           \* parser.prog
    help,           \* the help object (mutated in place)
    help0,          \* the help object as it was when the call started
    help_pre,       \* the help object as it was when the current stage started
    file_text,      \* what was read from the help file, NoText when none was read
    all_data,       \* what _get_yaml_help_for_nouns returned
    help_file_path, \* the help file that was opened, <<>> when none was
    calls,          \* the staged methods entered by the current call, in order
    err             \* the exception that left the call, NoError when none

vars == <<pc, loader, entry_point, data, is_applicable, prog, help, help0,
          help_pre, file_text, all_data, help_file_path, calls, err>>

----------------------------------------------------------------------------
(* Bounds of the model *)

MaxParams == 2
MaxArguments == 2
MaxExamples == 2
MaxContent == 2

----------------------------------------------------------------------------
(* Python values *)

None == [none |-> TRUE]
NoError == [type |-> "none"]
NoText == [kind |-> "none"]

\* Python truthiness, by the type of the value
TruthyText(v) == v # ""
TruthyList(v) == v # <<>>
TruthyDict(v) == v # None /\ DOMAIN v # {}

Has(d, k) == k \in DOMAIN d

----------------------------------------------------------------------------
(* Strings as sequences of characters *)

S_az_group_cmd == <<"a","z"," ","g","r","o","u","p"," ","c","m","d">>
S_group_cmd    == <<"g","r","o","u","p"," ","c","m","d">>
S_group_cmd_x  == <<"g","r","o","u","p"," ","c","m","d"," ","x">>
S_group_cmdx   == <<"g","r","o","u","p"," ","c","m","d","x">>
S_group        == <<"g","r","o","u","p">>
S_other        == <<"o","t","h","e","r">>
S_f_foo        == <<"-","f"," ","-","-","f","o","o">>
S_dd_foo       == <<"-","-","f","o","o">>
S_foo          == <<"f","o","o">>
S_fo           == <<"f","o">>
S_help_yaml    == <<"h","e","l","p",".","y","a","m","l">>
S_help_yml     == <<"h","e","l","p",".","y","m","l">>
S_xhelp_yml    == <<"x","h","e","l","p",".","y","m","l">>
S_help_py      == <<"_","h","e","l","p",".","p","y">>
S_init_py      == <<"_","_","i","n","i","t","_","_",".","p","y">>
S_iot          == <<"i","o","t">>
S_vm           == <<"v","m">>
S_modules      == <<"m","o","d","u","l","e","s">>

RECURSIVE SplitFrom(_, _, _)
SplitFrom(s, i, word) ==
    IF i > Len(s)
    THEN IF word = <<>> THEN <<>> ELSE <<word>>
    ELSE IF s[i] = " "
         THEN (IF word = <<>> THEN <<>> ELSE <<word>>) \o SplitFrom(s, i + 1, <<>>)
         ELSE SplitFrom(s, i + 1, Append(word, s[i]))

Split(s) == SplitFrom(s, 1, <<>>)

RECURSIVE Join(_)
Join(words) ==
    IF words = <<>> THEN <<>>
    ELSE IF Len(words) = 1 THEN words[1]
    ELSE words[1] \o <<" ">> \o Join(Tail(words))

StartsWith(s, p) == Len(p) <= Len(s) /\ SubSeq(s, 1, Len(p)) = p

EndsWith(s, p) == Len(p) <= Len(s) /\ SubSeq(s, Len(s) - Len(p) + 1, Len(s)) = p

InSeq(x, seq) == \E i \in 1..Len(seq) : seq[i] = x

SeqsUpTo(S, n) == UNION {[1..k -> S] : k \in 0..n}

----------------------------------------------------------------------------
(* Help objects the loaders are called on *)

ParamNames == {S_f_foo, S_foo}

ParamObj(n) ==
    [name |-> n, short_summary |-> "p_short", long_summary |-> "p_long",
     value_sources |-> "p_sources"]

OldExample == [name |-> "old", text |-> "az old"]

\* A command help file has parameters; a group help file has no such attribute.
HelpObj(type, params) ==
    [type |-> type, command |-> S_group_cmd, short_summary |-> "h_short",
     long_summary |-> "h_long", links |-> "h_links", examples |-> <<OldExample>>,
     labels |-> {"shown"}]
    @@ (IF type = "command" THEN "parameters" :> params ELSE <<>>)

HelpObjs ==
    {HelpObj("command", [i \in 1..Len(ns) |-> ParamObj(ns[i])]) :
        ns \in SeqsUpTo(ParamNames, MaxParams)}
    \cup {HelpObj("group", <<>>)}

----------------------------------------------------------------------------
(* Help documents *)

Opt(k, vals) == {<<>>} \cup {k :> v : v \in vals}

Bodies ==
    {s @@ d @@ l : s \in Opt("summary", {"", "S"}),
                   d \in Opt("description", {"", "D"}),
                   l \in Opt("links", {"", "L"})}

ArgNames == {S_dd_foo, S_foo, S_fo}

ArgValues ==
    { ("summary" :> "FS") @@ ("value-sources" :> ""),
      ("summary" :> "") @@ ("description" :> "FD"),
      ("description" :> "") @@ ("value-sources" :> "FV") }

C6Argument == ("name" :> S_dd_foo) @@ ("summary" :> "FS")

NamelessArgument == ("summary" :> "FS")

ArgRecs ==
    {("name" :> n) @@ v : n \in ArgNames, v \in ArgValues}
    \cup {C6Argument, NamelessArgument}

C6Example == ("name" :> "ex1") @@ ("text" :> "az group cmd")

ExRecs ==
    { C6Example,
      ("name" :> "ex2") @@ ("text" :> "az group cmd -f") @@ ("label" :> "hidden"),
      ("name" :> "ex3") @@ ("text" :> "az group cmd --foo") @@ ("label" :> "shown") }

BaseEntry == ("name" :> S_group_cmd) @@ ("summary" :> "S") @@ ("description" :> "D")

C6Entry == BaseEntry @@ ("arguments" :> <<C6Argument>>) @@ ("examples" :> <<C6Example>>)

OtherEntry == ("name" :> S_other) @@ ("summary" :> "OS")

NamelessEntry == ("summary" :> "NS")

\* The sections of an entry are merged independently of each other: the entries
\* vary one section at a time.
BodyEntries == {("name" :> S_group_cmd) @@ b : b \in Bodies}

SectionEntries ==
    {BaseEntry @@ ("arguments" :> a) : a \in SeqsUpTo(ArgRecs, MaxArguments)}
    \cup {BaseEntry @@ ("examples" :> x) : x \in SeqsUpTo(ExRecs, MaxExamples)}

\* An element of content is a mapping, kept as its items in document order.
\* The help file format wraps each entry in a single-key mapping.
Wrapped(e) == <<[key |-> "command", kind |-> "map", map |-> e]>>

FlatKeys == <<"name", "summary", "description", "links", "arguments", "examples">>

\* The entry's own keys as the element's items: the values are then strings and lists.
Flat(e) ==
    LET item(k) == IF k \in {"arguments", "examples"}
                   THEN [key |-> k, kind |-> "list", list |-> e[k]]
                   ELSE [key |-> k, kind |-> "str", str |-> e[k]]
    IN  SelectSeq([i \in 1..Len(FlatKeys) |->
                      IF Has(e, FlatKeys[i]) THEN item(FlatKeys[i])
                      ELSE [key |-> FlatKeys[i], kind |-> "absent"]],
                  LAMBDA it : it.kind # "absent")

Fillers == {Wrapped(OtherEntry), Wrapped(NamelessEntry), Flat(OtherEntry)}

\* Contents of every shape, around one entry
ShapedContents ==
    {<<Wrapped(e)>> : e \in BodyEntries}
    \cup {<<Flat(C6Entry)>>}
    \cup {f \o t : f \in SeqsUpTo(Fillers, MaxContent - 1),
                   t \in {<<>>, <<Wrapped(C6Entry)>>}}

DocVersions == {0, 1, 2}

\* Documents of every version and without one; the documents that vary the
\* arguments and the examples are of version 1, the only version a loader reads.
C6Doc == ("version" :> 1) @@ ("content" :> <<Wrapped(C6Entry)>>)

Docs ==
    {("content" :> c) @@ v : c \in ShapedContents, v \in Opt("version", DocVersions)}
    \cup {("content" :> <<Wrapped(e)>>) @@ ("version" :> 1) : e \in SectionEntries}
    \cup {"version" :> 1}

----------------------------------------------------------------------------
(* The data locator: BaseHelpLoader._get_yaml_help_for_nouns *)

\* A returned value, or the exception that was raised instead
Returns(v) == [raised |-> NoError, value |-> v]
Raises(e) == [raised |-> e, value |-> None]

\* Paths are sequences of components.
PathSplit(path) == <<SubSeq(path, 1, Len(path) - 1), path[Len(path)]>>
PathBasename(path) == path[Len(path)]
PathDirname(path) == SubSeq(path, 1, Len(path) - 1)
PathJoin(dir, name) == Append(dir, name)

\* yaml.load: the text of a file is kept by what it parses to.
EmptyText == [kind |-> "empty"]
MalformedText == [kind |-> "malformed"]
YamlText(doc) == [kind |-> "yaml", doc |-> doc]

YamlLoad(text) ==
    CASE text.kind = "malformed" -> Raises([type |-> "YAMLError"])
      [] text.kind = "empty" -> Returns(None)
      [] OTHER -> Returns(text.doc)

\* The error names the whole path of the file instead of its relative path.
parse_yaml_naming_full_path(text, path) ==
    LET loaded == YamlLoad(text)
    IN  IF loaded.raised # NoError
        THEN Raises([type |-> "CLIError", what |-> "parsing", path |-> path])
        ELSE IF ~TruthyDict(loaded.value)
        THEN Raises([type |-> "CLIError", what |-> "empty", path |-> path])
        ELSE Returns(loaded.value)

parse_yaml_from_string(text, path) ==
    LET dir_name == PathSplit(path)[1]
        base_name == PathSplit(path)[2]
        pretty_file_path == PathJoin(<<PathBasename(dir_name)>>, base_name)
        loaded == YamlLoad(text)
    IN  IF loaded.raised # NoError
        THEN Raises([type |-> "CLIError", what |-> "parsing", path |-> pretty_file_path])
        ELSE IF ~TruthyDict(loaded.value)
        THEN Raises([type |-> "CLIError", what |-> "empty", path |-> pretty_file_path])
        ELSE Returns(loaded.value)

\* dict.get(key, [None])[0] on the command-to-loaders map, kept as its items
MapGetFirst(map, key) ==
    IF \E i \in 1..Len(map) : map[i].name = key
    THEN LET i == CHOOSE i \in 1..Len(map) : map[i].name = key IN map[i].loaders[1]
    ELSE None

\* next(...) over a generator: the index of the first element that satisfies
\* the condition, given the truth of the condition at each index; 0 when none does
FirstIndex(flags) ==
    IF \E i \in 1..Len(flags) : flags[i]
    THEN CHOOSE i \in 1..Len(flags) : flags[i] /\ \A j \in 1..(i - 1) : ~flags[j]
    ELSE 0

FindLoader(command_nouns, cmd_loader_map_ref, cmd_group_table) ==
    LET exact == MapGetFirst(cmd_loader_map_ref, command_nouns)
        g == FirstIndex([i \in 1..Len(cmd_group_table) |->
                            /\ cmd_group_table[i].obj # None
                            /\ cmd_group_table[i].name = command_nouns])
        byGroup == IF exact # None THEN exact
                   ELSE IF g # 0 THEN cmd_group_table[g].obj.command_loader
                   ELSE None
        c == FirstIndex([i \in 1..Len(cmd_loader_map_ref) |->
                            StartsWith(cmd_loader_map_ref[i].name,
                                       command_nouns \o <<" ">>)])
    IN  IF byGroup # None THEN byGroup
        ELSE IF c # 0 THEN cmd_loader_map_ref[c].loaders[1]
        ELSE None

IsHelpFileName(file) == EndsWith(file, S_help_yaml) \/ EndsWith(file, S_help_yml)

\* The path of the help file that is opened, <<>> when there is none
LocateHelpFile(nouns, cmd_loader_map_ref, cmd_group_table, listdir) ==
    LET ldr == FindLoader(Join(nouns), cmd_loader_map_ref, cmd_group_table)
    IN  IF ldr = None THEN <<>>
        ELSE LET dir_name == PathDirname(ldr.file)
                 files == listdir[dir_name]
                 f == FirstIndex([i \in 1..Len(files) |-> IsHelpFileName(files[i].name)])
             IN  IF f = 0 THEN <<>> ELSE PathJoin(dir_name, files[f].name)

\* open(help_file_path).read()
ReadFile(path, listdir) ==
    LET files == listdir[PathDirname(path)]
        f == FirstIndex([i \in 1..Len(files) |-> files[i].name = PathBasename(path)])
    IN  files[f].text

get_yaml_help_for_nouns(nouns, cmd_loader_map_ref, cmd_group_table, listdir) ==
    LET path == LocateHelpFile(nouns, cmd_loader_map_ref, cmd_group_table, listdir)
    IN  IF path = <<>> THEN Returns(None)
        ELSE parse_yaml_from_string(ReadFile(path, listdir), path)

----------------------------------------------------------------------------
(* What the locator reads: the command registries and the module directories *)

Dir1 == <<S_modules, S_iot>>
Dir2 == <<S_modules, S_vm>>
Dir3 == <<S_modules, S_other>>

CommandLoader(dir) == [file |-> PathJoin(dir, S_init_py)]

Registry(map, groups) == [cmd_to_loader_map |-> map, command_group_table |-> groups]

\* the command itself is registered
ExactRegistry ==
    Registry(<<[name |-> S_group_cmd_x, loaders |-> <<CommandLoader(Dir2)>>],
               [name |-> S_group_cmd, loaders |-> <<CommandLoader(Dir1)>>]>>, <<>>)

Registries ==
    { ExactRegistry,
      \* a group of that name has a command group object
      Registry(<<[name |-> S_group_cmdx, loaders |-> <<CommandLoader(Dir2)>>]>>,
               <<[name |-> S_other, obj |-> [command_loader |-> CommandLoader(Dir2)]],
                 [name |-> S_group_cmd, obj |-> [command_loader |-> CommandLoader(Dir1)]]>>),
      \* the group has no command group object; a command below it is registered
      Registry(<<[name |-> S_group_cmdx, loaders |-> <<CommandLoader(Dir1)>>],
                 [name |-> S_group_cmd_x, loaders |-> <<CommandLoader(Dir2)>>]>>,
               <<[name |-> S_group_cmd, obj |-> None]>>),
      \* the owning module has no help file
      Registry(<<[name |-> S_group_cmd, loaders |-> <<CommandLoader(Dir3)>>]>>, <<>>),
      \* nothing owns the command
      Registry(<<[name |-> S_group_cmdx, loaders |-> <<CommandLoader(Dir1)>>]>>,
               <<[name |-> S_group, obj |-> [command_loader |-> CommandLoader(Dir1)]]>>) }

File(name, text) == [name |-> name, text |-> text]

PyText == [kind |-> "python"]

BrokenTexts == {EmptyText, MalformedText}

\* os.listdir of each module directory: t is the text of the help file of Dir1
Listdir(t) ==
    (Dir1 :> <<File(S_help_py, PyText), File(S_help_yaml, t), File(S_xhelp_yml, EmptyText)>>)
    @@ (Dir2 :> <<File(S_init_py, PyText),
                  File(S_xhelp_yml, IF t \in BrokenTexts THEN t ELSE MalformedText)>>)
    @@ (Dir3 :> <<File(S_init_py, PyText), File(S_help_py, PyText)>>)

\* Every registry with broken and with well-formed help files, and every
\* document behind the registry that knows the command itself.
Worlds ==
    {[reg |-> r, listdir |-> Listdir(t)] :
        r \in Registries, t \in BrokenTexts \cup {YamlText(C6Doc)}}
    \cup {[reg |-> ExactRegistry, listdir |-> Listdir(YamlText(d))] : d \in Docs}

----------------------------------------------------------------------------
(* The loaders *)

V0 == 0
V1 == 1
Versions == {V0, V1}

\* Any raw data is applicable, whatever its version.
data_is_applicable_any_version(v, d) == TruthyDict(d)

\* BaseHelpLoader._data_is_applicable of the loader that declares version v
data_is_applicable(v, d) ==
    IF TruthyDict(d) THEN Has(d, "version") /\ v = d["version"] ELSE FALSE

\* A falsy value is skipped like a missing key.
RECURSIVE update_obj_skipping_falsy(_, _, _)
update_obj_skipping_falsy(obj, d, attr_key_tups) ==
    IF attr_key_tups = <<>> THEN obj
    ELSE LET attr == attr_key_tups[1][1]
             key == attr_key_tups[1][2]
             updated == IF Has(d, key) /\ TruthyText(d[key])
                        THEN [obj EXCEPT ![attr] = d[key]]
                        ELSE obj
         IN  update_obj_skipping_falsy(updated, d, Tail(attr_key_tups))

\* setattr(obj, attr, data[key] or attr) for each pair; a missing key is skipped
RECURSIVE update_obj_from_data_dict(_, _, _)
update_obj_from_data_dict(obj, d, attr_key_tups) ==
    IF attr_key_tups = <<>> THEN obj
    ELSE LET attr == attr_key_tups[1][1]
             key == attr_key_tups[1][2]
             updated == IF Has(d, key)
                        THEN [obj EXCEPT ![attr] = IF TruthyText(d[key]) THEN d[key] ELSE attr]
                        ELSE obj
         IN  update_obj_from_data_dict(updated, d, Tail(attr_key_tups))

core_attrs_to_keys == <<<<"short_summary", "summary">>, <<"long_summary", "description">>>>
body_attrs_to_keys == core_attrs_to_keys \o <<<<"links", "links">>>>
param_attrs_to_keys == core_attrs_to_keys \o <<<<"value_sources", "value-sources">>>>

\* HelpLoaderV1._get_entry_data: the items of the elements of content are scanned
\* in order for a value whose name is cmd_name; value.get fails on a value that
\* is no mapping, and only StopIteration is caught.
AllItems(content) ==
    LET RECURSIVE Cat(_)
        Cat(i) == IF i > Len(content) THEN <<>> ELSE content[i] \o Cat(i + 1)
    IN  Cat(1)

\* The first named entry is taken, whatever its name.
get_entry_data_any_name(cmd_name, d) ==
    IF TruthyDict(d) /\ Has(d, "content") /\ TruthyList(d["content"])
    THEN LET items == AllItems(d["content"])
             stop(it) == it.kind # "map" \/ Has(it.map, "name")
             i == FirstIndex([k \in 1..Len(items) |-> stop(items[k])])
         IN  IF i = 0 THEN Returns(None)
             ELSE IF items[i].kind # "map" THEN Raises([type |-> "AttributeError"])
             ELSE IF ~Has(d, "version") THEN Raises([type |-> "KeyError"])
             ELSE Returns(("version" :> d["version"]) @@ items[i].map)
    ELSE Returns(None)

get_entry_data(cmd_name, d) ==
    IF TruthyDict(d) /\ Has(d, "content") /\ TruthyList(d["content"])
    THEN LET items == AllItems(d["content"])
             stop(it) == it.kind # "map"
                         \/ (Has(it.map, "name") /\ it.map["name"] = cmd_name)
             i == FirstIndex([k \in 1..Len(items) |-> stop(items[k])])
         IN  IF i = 0 THEN Returns(None)
             ELSE IF items[i].kind # "map" THEN Raises([type |-> "AttributeError"])
             ELSE IF ~Has(d, "version") THEN Raises([type |-> "KeyError"])
             ELSE Returns(("version" :> d["version"]) @@ items[i].map)
    ELSE Returns(None)

\* long_summary is cleared after the merge instead of before it.
load_help_body_clearing_last(h, d) ==
    [update_obj_from_data_dict(h, d, body_attrs_to_keys) EXCEPT !["long_summary"] = ""]

\* HelpLoaderV1.load_help_body
load_help_body(h, d) ==
    update_obj_from_data_dict([h EXCEPT !["long_summary"] = ""], d, body_attrs_to_keys)

\* Every argument is compared with the whole name of the parameter.
params_equal_whole_name(param, param_dict) == param_dict["name"] = param["name"]

\* A positional argument matches a parameter whose name starts with its name.
params_equal_by_prefix(param, param_dict) ==
    IF StartsWith(param_dict["name"], <<"-", "-">>)
    THEN InSeq(param_dict["name"], Split(param["name"]))
    ELSE StartsWith(param["name"], param_dict["name"])

\* params_equal of load_help_parameters; param_dict['name'] raises KeyError
\* when the argument record has no name.
params_equal(param, param_dict) ==
    IF StartsWith(param_dict["name"], <<"-", "-">>)
    THEN InSeq(param_dict["name"], Split(param["name"]))
    ELSE param_dict["name"] = param["name"]

\* next((n for n in arguments if params_equal(param, n)), None): the index of the
\* record the scan stops at, 0 when it runs off the end
ScanStop(param, arguments) ==
    FirstIndex([j \in 1..Len(arguments) |->
                   ~Has(arguments[j], "name") \/ params_equal(param, arguments[j])])

ScanRaises(param, arguments) ==
    LET j == ScanStop(param, arguments) IN j # 0 /\ ~Has(arguments[j], "name")

HasParameters(h) == Has(h, "parameters")

\* HelpLoaderV1.load_help_parameters: the parameter objects are updated in place,
\* one after the other, until a scan raises.
load_help_parameters(h, d) ==
    IF h["type"] = "command" /\ HasParameters(h)
       /\ Has(d, "arguments") /\ TruthyList(d["arguments"])
    THEN LET arguments == d["arguments"]
             params == h["parameters"]
             r == FirstIndex([i \in 1..Len(params) |-> ScanRaises(params[i], arguments)])
             merged(i) ==
                 LET j == ScanStop(params[i], arguments)
                 IN  IF j = 0 THEN params[i]
                     ELSE update_obj_from_data_dict(params[i], arguments[j],
                                                    param_attrs_to_keys)
             loaded == [i \in 1..Len(params) |->
                           IF r = 0 \/ i < r THEN merged(i) ELSE params[i]]
         IN  IF r = 0 THEN Returns([h EXCEPT !["parameters"] = loaded])
             ELSE [raised |-> [type |-> "KeyError"],
                   value |-> [h EXCEPT !["parameters"] = loaded]]
    ELSE Returns(h)

\* HelpExample(**ex)
HelpExample(ex) == [name |-> ex["name"], text |-> ex["text"]]

\* CliHelpFile._should_include_example: the help object's own predicate
should_include_example(h, ex) == Has(ex, "label") => ex["label"] \in h["labels"]

\* Every example record is built, accepted or not.
load_help_examples_unfiltered(h, d) ==
    IF h["type"] = "command" /\ Has(d, "examples") /\ TruthyList(d["examples"])
    THEN [h EXCEPT !["examples"] =
             [i \in 1..Len(d["examples"]) |-> HelpExample(d["examples"][i])]]
    ELSE h

\* HelpLoaderV1.load_help_examples
load_help_examples(h, d) ==
    IF h["type"] = "command" /\ Has(d, "examples") /\ TruthyList(d["examples"])
    THEN LET kept == SelectSeq(d["examples"], LAMBDA ex : should_include_example(h, ex))
         IN  [h EXCEPT !["examples"] = [i \in 1..Len(kept) |-> HelpExample(kept[i])]]
    ELSE h

\* The help population that HelpLoaderV0.versioned_load delegates to: it fills
\* the summaries from the parser and the in-code help, whatever the document says.
LegacyLoad(h) ==
    {[h EXCEPT !["short_summary"] = s, !["long_summary"] = l] :
        s \in {h["short_summary"], "legacy short"}, l \in {"", "legacy long"}}

----------------------------------------------------------------------------
(* The calls *)

\* A loader of each version, as built by BaseHelpLoader.__init__
NewLoaders == [v \in Versions |-> None]

Init ==
    /\ pc = "idle"
    /\ loader = V0
    /\ entry_point = "versioned_load"
    /\ data = NewLoaders
    /\ is_applicable = [v \in Versions |-> FALSE]
    /\ prog = <<>>
    /\ help = HelpObj("group", <<>>)
    /\ help0 = help
    /\ help_pre = help
    /\ file_text = NoText
    /\ all_data = None
    /\ help_file_path = <<>>
    /\ calls = <<>>
    /\ err = NoError

\* versioned_load is called on a new loader of either version.
Call ==
    /\ pc = "idle"
    /\ \E v \in Versions, h \in HelpObjs :
          /\ loader' = v
          /\ help' = h
          /\ help0' = h
          /\ help_pre' = h
          /\ pc' = IF v = V0 THEN "legacy_load" ELSE "load_raw_data"
    /\ entry_point' = "versioned_load"
    /\ data' = NewLoaders
    /\ prog' = S_az_group_cmd
    /\ UNCHANGED <<is_applicable, file_text, all_data, help_file_path, calls, err>>

\* The dispatcher asks the loaders, in the order of their versions, to load
\* their raw data and to say whether it is applicable.
Dispatch ==
    /\ pc = "idle"
    /\ \E h \in HelpObjs :
          /\ help' = h
          /\ help0' = h
          /\ help_pre' = h
    /\ loader' = V0
    /\ pc' = "load_raw_data"
    /\ entry_point' = "dispatch"
    /\ data' = NewLoaders
    /\ prog' = S_az_group_cmd
    /\ UNCHANGED <<is_applicable, file_text, all_data, help_file_path, calls, err>>

\* HelpLoaderV0.versioned_load
VersionedLoadV0 ==
    /\ pc = "legacy_load"
    /\ help' \in LegacyLoad(help)
    /\ pc' = "done"
    /\ UNCHANGED <<loader, entry_point, data, is_applicable, prog, help0, help_pre,
                   file_text, all_data, help_file_path, calls, err>>

\* The V0 loader keeps the document it is shown as its raw data.
LoadRawDataV0_keeping_data ==
    /\ pc = "load_raw_data"
    /\ loader = V0
    /\ calls' = Append(calls, "load_raw_data")
    /\ pc' = "data_is_applicable"
    /\ data' = [data EXCEPT ![V0] = ("version" :> V0) @@ BaseEntry]
    /\ UNCHANGED <<loader, entry_point, is_applicable, prog, help, help0,
                   help_pre, file_text, all_data, help_file_path, err>>

\* HelpLoaderV0.load_raw_data
LoadRawDataV0 ==
    /\ pc = "load_raw_data"
    /\ loader = V0
    /\ calls' = Append(calls, "load_raw_data")
    /\ pc' = "data_is_applicable"
    /\ UNCHANGED <<loader, entry_point, data, is_applicable, prog, help, help0,
                   help_pre, file_text, all_data, help_file_path, err>>

\* HelpLoaderV1.load_raw_data
LoadRawDataV1 ==
    /\ pc = "load_raw_data"
    /\ loader = V1
    /\ calls' = Append(calls, "load_raw_data")
    /\ \E w \in Worlds :
          LET command_nouns == Tail(Split(prog))
              cmd_loader_map_ref == w.reg.cmd_to_loader_map
              cmd_group_tbl == w.reg.command_group_table
              found == get_yaml_help_for_nouns(command_nouns, cmd_loader_map_ref,
                                               cmd_group_tbl, w.listdir)
              entry == get_entry_data(help["command"], found.value)
              path == LocateHelpFile(command_nouns, cmd_loader_map_ref,
                                     cmd_group_tbl, w.listdir)
          IN  /\ help_file_path' = path
              /\ file_text' = IF path = <<>> THEN NoText ELSE ReadFile(path, w.listdir)
              /\ all_data' = found.value
              /\ IF found.raised # NoError
                 THEN err' = found.raised /\ pc' = "raised" /\ data' = data
                 ELSE IF entry.raised # NoError
                 THEN err' = entry.raised /\ pc' = "raised" /\ data' = data
                 ELSE /\ err' = err
                      /\ pc' = "data_is_applicable"
                      /\ data' = [data EXCEPT ![V1] = entry.value]
    /\ UNCHANGED <<loader, entry_point, is_applicable, prog, help, help0, help_pre>>

\* BaseHelpLoader._data_is_applicable, and what its caller does with the answer
DataIsApplicable ==
    /\ pc = "data_is_applicable"
    /\ is_applicable' =
          [is_applicable EXCEPT ![loader] = data_is_applicable(loader, data[loader])]
    /\ IF entry_point = "versioned_load"
       THEN /\ pc' = IF is_applicable'[loader] THEN "load_help_body" ELSE "done"
            /\ loader' = loader
       ELSE /\ pc' = IF loader = V0 THEN "load_raw_data" ELSE "done"
            /\ loader' = V1
    /\ UNCHANGED <<entry_point, data, prog, help, help0, help_pre, file_text,
                   all_data, help_file_path, calls, err>>

\* versioned_load goes from the body to the examples and leaves the parameters out.
LoadHelpBody_then_examples ==
    /\ pc = "load_help_body"
    /\ calls' = Append(calls, "load_help_body")
    /\ help_pre' = help
    /\ help' = load_help_body(help, data[loader])
    /\ pc' = "load_help_examples"
    /\ UNCHANGED <<loader, entry_point, data, is_applicable, prog, help0, file_text,
                   all_data, help_file_path, err>>

\* HelpLoaderV1.load_help_body, called by versioned_load
LoadHelpBody ==
    /\ pc = "load_help_body"
    /\ calls' = Append(calls, "load_help_body")
    /\ help_pre' = help
    /\ help' = load_help_body(help, data[loader])
    /\ pc' = "load_help_parameters"
    /\ UNCHANGED <<loader, entry_point, data, is_applicable, prog, help0, file_text,
                   all_data, help_file_path, err>>

\* HelpLoaderV1.load_help_parameters, called by versioned_load
LoadHelpParameters ==
    /\ pc = "load_help_parameters"
    /\ calls' = Append(calls, "load_help_parameters")
    /\ help_pre' = help
    /\ LET r == load_help_parameters(help, data[loader])
       IN  /\ help' = r.value
           /\ err' = r.raised
           /\ pc' = IF r.raised # NoError THEN "raised" ELSE "load_help_examples"
    /\ UNCHANGED <<loader, entry_point, data, is_applicable, prog, help0, file_text,
                   all_data, help_file_path>>

\* HelpLoaderV1.load_help_examples, called by versioned_load
LoadHelpExamples ==
    /\ pc = "load_help_examples"
    /\ calls' = Append(calls, "load_help_examples")
    /\ help_pre' = help
    /\ help' = load_help_examples(help, data[loader])
    /\ pc' = "done"
    /\ UNCHANGED <<loader, entry_point, data, is_applicable, prog, help0, file_text,
                   all_data, help_file_path, err>>

\* The call is over; the loaders and the help object are dropped.
Return ==
    /\ pc \in {"done", "raised"}
    /\ pc' = "idle"
    /\ loader' = V0
    /\ entry_point' = "versioned_load"
    /\ data' = NewLoaders
    /\ is_applicable' = [v \in Versions |-> FALSE]
    /\ prog' = <<>>
    /\ help' = HelpObj("group", <<>>)
    /\ help0' = help'
    /\ help_pre' = help'
    /\ file_text' = NoText
    /\ all_data' = None
    /\ help_file_path' = <<>>
    /\ calls' = <<>>
    /\ err' = NoError

Next ==
    \/ Call
    \/ Dispatch
    \/ VersionedLoadV0
    \/ LoadRawDataV0
    \/ LoadRawDataV1
    \/ DataIsApplicable
    \/ LoadHelpBody
    \/ LoadHelpParameters
    \/ LoadHelpExamples
    \/ Return

Spec == Init /\ [][Next]_vars

----------------------------------------------------------------------------
(* What the claims speak of *)

StagedCalls == <<"load_raw_data", "load_help_body", "load_help_parameters",
                 "load_help_examples">>

IsPrefix(a, b) == Len(a) <= Len(b) /\ SubSeq(b, 1, Len(a)) = a

\* The version field of document d is v
DocVersionIs(d, v) == Has(d, "version") /\ d["version"] = v

\* The raw data of the loader of version v exists and carries version v
RawDataMatches(v) == data[v] # None /\ DocVersionIs(data[v], v)

\* load_raw_data of the V1 loader has run in the current call
RawLoadedV1 == loader = V1 /\ pc \notin {"idle", "load_raw_data"}

InVersionedLoad == entry_point = "versioned_load" /\ pc # "idle"

----------------------------------------------------------------------------
(* C1 *)

\* C1, as stated: whichever loader versioned_load is called on, a document
\* whose version differs from the loader's leaves the help object as it was.
\* HelpLoaderV0 reads no document: its call is the same beside every document,
\* C6Doc (version 1) among them.
C1_AnyLoaderMismatchNoEffect ==
    LET d == IF loader = V1 THEN all_data ELSE C6Doc
    IN  (InVersionedLoad /\ pc = "done" /\ d # None /\ ~DocVersionIs(d, loader))
            => help = help0

\* C1, as amended: at every point of versioned_load on the V1 loader, once a
\* document whose version is not 1 (or is missing) has been read, the help
\* object is as it was when the call started.
C1_V1MismatchNoEffect ==
    (InVersionedLoad /\ loader = V1 /\ all_data # None /\ ~DocVersionIs(all_data, V1))
        => help = help0

\* A version 2 document with an entry for the command was loaded by V1, and the
\* call returned.
C1_Witness ==
    /\ InVersionedLoad /\ loader = V1 /\ pc = "done"
    /\ all_data # None /\ DocVersionIs(all_data, 2)
    /\ data[V1] # None /\ Has(data[V1], "summary")
    /\ help = help0

----------------------------------------------------------------------------
(* C2 *)

\* C2, as stated: every versioned_load runs load_raw_data first, and has run
\* the three other stages, in order, when the loader is applicable and none of
\* them when it is not.
C2_AlwaysStaged ==
    (InVersionedLoad /\ pc \in {"done", "raised"})
        => /\ calls # <<>> /\ calls[1] = "load_raw_data"
           /\ calls = IF RawDataMatches(loader) THEN StagedCalls ELSE <<"load_raw_data">>

\* C2, as amended: versioned_load of the V1 loader enters the stages in the
\* fixed order, each at most once, load_raw_data first; when load_raw_data
\* raises nothing else runs; when it returns, the body stage runs iff the raw
\* data exists with version 1, the parameter stage follows it, and the example
\* stage follows unless the parameter stage raised.  versioned_load of the V0
\* loader enters none of the four stages.
C2_StagedOrder ==
    InVersionedLoad =>
        /\ IsPrefix(calls, StagedCalls)
        /\ loader = V0 => calls = <<>>
        /\ (loader = V1 /\ pc = "done")
               => calls = IF RawDataMatches(V1) THEN StagedCalls ELSE <<"load_raw_data">>
        /\ (loader = V1 /\ pc = "raised")
               => \/ calls = <<"load_raw_data">> /\ data[V1] = None
                  \/ calls = SubSeq(StagedCalls, 1, 3) /\ RawDataMatches(V1)

\* An applicable V1 load that ran all four stages and returned
C2_Witness ==
    /\ InVersionedLoad /\ loader = V1 /\ pc = "done"
    /\ RawDataMatches(V1)
    /\ calls = StagedCalls

----------------------------------------------------------------------------
(* C10 *)

ApplicableLoaders == {v \in Versions : is_applicable[v]}

DispatchDone == entry_point = "dispatch" /\ pc = "done"

\* C10, as stated: once both loaders have loaded their raw data for a document,
\* exactly one of them is applicable.
C10_ExactlyOneApplicable ==
    (DispatchDone /\ all_data # None) => Cardinality(ApplicableLoaders) = 1

\* C10, as amended: once both loaders have loaded their raw data, each is
\* applicable iff its raw data exists with its own version; the V0 loader loads
\* none and is never applicable, so at most one loader is applicable, and
\* none is when the document's version is not 1.
C10_AtMostOneApplicable ==
    DispatchDone =>
        /\ \A v \in Versions : is_applicable[v] <=> RawDataMatches(v)
        /\ ~is_applicable[V0]
        /\ Cardinality(ApplicableLoaders) <= 1
        /\ (all_data # None /\ ~DocVersionIs(all_data, V1)) => ApplicableLoaders = {}

\* Both loaders were asked about a version 1 document and V1 alone is applicable.
C10_Witness ==
    /\ DispatchDone
    /\ all_data # None /\ DocVersionIs(all_data, V1)
    /\ ApplicableLoaders = {V1}

----------------------------------------------------------------------------
(* C9 *)

BodyPairs == {<<"short_summary", "summary">>, <<"long_summary", "description">>,
              <<"links", "links">>}

\* load_help_body has just returned
AfterBody == pc = "load_help_parameters"

\* What a merged field holds when the record has the key: the value when it is
\* truthy, else the attribute's own name
MergedValue(rec, attr, key) == IF rec[key] # "" THEN rec[key] ELSE attr

\* C9, as stated: after load_help_body each field holds the raw value when it
\* is truthy, the attribute's name when it is falsy, and what it held before
\* when the key is missing.
C9_BodyMerge ==
    AfterBody =>
        \A p \in BodyPairs :
            help[p[1]] = IF Has(data[V1], p[2]) THEN MergedValue(data[V1], p[1], p[2])
                         ELSE help_pre[p[1]]

\* C9, as amended: as stated for a key that is present; when the key is
\* missing short_summary and links hold what they held before, and
\* long_summary is empty, load_help_body having cleared it before the merge.
C9_BodyMergeClearsLong ==
    AfterBody =>
        \A p \in BodyPairs :
            help[p[1]] = IF Has(data[V1], p[2]) THEN MergedValue(data[V1], p[1], p[2])
                         ELSE IF p[1] = "long_summary" THEN ""
                         ELSE help_pre[p[1]]

\* A body with a truthy summary, a falsy links and no description was merged.
C9_Witness ==
    /\ AfterBody
    /\ Has(data[V1], "summary") /\ data[V1]["summary"] = "S"
    /\ Has(data[V1], "links") /\ data[V1]["links"] = ""
    /\ ~Has(data[V1], "description")
    /\ help["short_summary"] = "S" /\ help["links"] = "links"
    /\ help["long_summary"] = "" /\ help_pre["long_summary"] = "h_long"

----------------------------------------------------------------------------
(* C3 and C4 *)

ParamPairs == {<<"short_summary", "summary">>, <<"long_summary", "description">>,
               <<"value_sources", "value-sources">>}

\* The parameter-matching rule: an argument named --x matches a parameter
\* object one of whose aliases is --x; any other argument matches the
\* parameter object of the same name.
Aliases(name) ==
    {SubSeq(name, i, j) : <<i, j>> \in
        {ij \in (1..Len(name)) \X (1..Len(name)) :
            /\ ij[1] <= ij[2]
            /\ \A k \in ij[1]..ij[2] : name[k] # " "
            /\ (ij[1] = 1 \/ name[ij[1] - 1] = " ")
            /\ (ij[2] = Len(name) \/ name[ij[2] + 1] = " ")}}

Matches(arg, param) ==
    /\ Has(arg, "name")
    /\ IF Len(arg["name"]) >= 2 /\ arg["name"][1] = "-" /\ arg["name"][2] = "-"
       THEN arg["name"] \in Aliases(param["name"])
       ELSE arg["name"] = param["name"]

RawArguments == IF Has(data[V1], "arguments") THEN data[V1]["arguments"] ELSE <<>>

\* The first argument, in document order, that matches the parameter; 0 if none
FirstMatch(param) ==
    IF \E j \in 1..Len(RawArguments) : Matches(RawArguments[j], param)
    THEN CHOOSE j \in 1..Len(RawArguments) :
            /\ Matches(RawArguments[j], param)
            /\ \A k \in 1..(j - 1) : ~Matches(RawArguments[k], param)
    ELSE 0

\* load_help_parameters has just returned
AfterParameters == pc = "load_help_examples"

\* load_help_parameters has just returned or raised
LeftParameters ==
    \/ AfterParameters
    \/ pc = "raised" /\ calls # <<>> /\ calls[Len(calls)] = "load_help_parameters"

IsCommand(h) == h["type"] = "command"

\* C3, as stated: a parameter object that some argument matches holds the
\* summary, description and value-sources of the first argument that matches.
C3_FirstMatchCopied ==
    (AfterParameters /\ IsCommand(help)) =>
        \A i \in 1..Len(help["parameters"]) :
            LET j == FirstMatch(help_pre["parameters"][i])
            IN  j # 0 => \A p \in ParamPairs :
                            Has(RawArguments[j], p[2])
                                => help["parameters"][i][p[1]] = RawArguments[j][p[2]]

\* C3, as amended: for each of the three keys of the first argument that
\* matches, the parameter object holds the value when it is truthy, the
\* attribute's own name when it is falsy, and what it held before when the
\* argument has no such key.
C3_FirstMatchMerged ==
    (AfterParameters /\ IsCommand(help)) =>
        \A i \in 1..Len(help["parameters"]) :
            LET j == FirstMatch(help_pre["parameters"][i])
            IN  j # 0 => \A p \in ParamPairs :
                            help["parameters"][i][p[1]] =
                                IF Has(RawArguments[j], p[2])
                                THEN MergedValue(RawArguments[j], p[1], p[2])
                                ELSE help_pre["parameters"][i][p[1]]

\* The parameter -f --foo had two matching arguments with different summaries
\* and holds the summary of the first.
C3_Witness ==
    /\ AfterParameters /\ IsCommand(help)
    /\ \E i \in 1..Len(help["parameters"]) :
          /\ help["parameters"][i]["name"] = S_f_foo
          /\ Len(RawArguments) = 2
          /\ \A j \in 1..2 : Matches(RawArguments[j], help["parameters"][i])
          /\ Has(RawArguments[1], "summary") /\ RawArguments[1]["summary"] = "FS"
          /\ Has(RawArguments[2], "summary") /\ RawArguments[2]["summary"] = ""
          /\ help["parameters"][i]["short_summary"] = "FS"

\* C4: when load_help_parameters is left, a parameter object that no argument
\* matches is as it was, a positional argument matching only the parameter
\* of exactly its name; the parameter sequence has the same members (by name)
\* in the same order; a help object without parameters is as it was.
C4_UnmatchedUnchanged ==
    LeftParameters =>
        IF HasParameters(help_pre)
        THEN /\ HasParameters(help)
             /\ Len(help["parameters"]) = Len(help_pre["parameters"])
             /\ \A i \in 1..Len(help["parameters"]) :
                   /\ help["parameters"][i]["name"] = help_pre["parameters"][i]["name"]
                   /\ FirstMatch(help_pre["parameters"][i]) = 0
                         => help["parameters"][i] = help_pre["parameters"][i]
        ELSE help = help_pre

\* The parameters foo and -f --foo were offered the arguments fo and foo: foo
\* merged, -f --foo did not.
C4_Witness ==
    /\ AfterParameters /\ IsCommand(help)
    /\ Len(help["parameters"]) = 2
    /\ help["parameters"][1]["name"] = S_foo
    /\ help["parameters"][2]["name"] = S_f_foo
    /\ Len(RawArguments) = 2
    /\ RawArguments[1]["name"] = S_fo /\ RawArguments[2]["name"] = S_foo
    /\ help["parameters"][1] # help_pre["parameters"][1]
    /\ help["parameters"][2] = help_pre["parameters"][2]

----------------------------------------------------------------------------
(* C5 *)

\* load_help_examples has just returned
AfterExamples == pc = "done" /\ calls = StagedCalls

RawHasExamples == Has(data[V1], "examples") /\ Len(data[V1]["examples"]) > 0

\* The help object accepts the example record
Accepted(h, ex) == ~Has(ex, "label") \/ ex["label"] \in h["labels"]

\* The entries built from the accepted records among exs, in their order
RECURSIVE BuiltExamples(_, _)
BuiltExamples(h, exs) ==
    IF exs = <<>> THEN <<>>
    ELSE (IF Accepted(h, Head(exs))
          THEN <<[name |-> Head(exs)["name"], text |-> Head(exs)["text"]]>>
          ELSE <<>>) \o BuiltExamples(h, Tail(exs))

\* C5: after load_help_examples, the examples of a command help object whose
\* raw data has examples are the entries built from the accepted records, in
\* document order; otherwise they are what they were; nothing else changed.
C5_ExamplesReplaced ==
    AfterExamples =>
        /\ help["examples"] =
              IF IsCommand(help_pre) /\ RawHasExamples
              THEN BuiltExamples(help_pre, data[V1]["examples"])
              ELSE help_pre["examples"]
        /\ [help EXCEPT !["examples"] = <<>>] = [help_pre EXCEPT !["examples"] = <<>>]

\* A rejected record followed by an accepted one: only the second was built.
C5_Witness ==
    /\ AfterExamples /\ IsCommand(help) /\ RawHasExamples
    /\ Len(data[V1]["examples"]) = 2
    /\ ~Accepted(help, data[V1]["examples"][1])
    /\ Accepted(help, data[V1]["examples"][2])
    /\ Len(help["examples"]) = 1
    /\ help["examples"][1]["name"] = data[V1]["examples"][2]["name"]

----------------------------------------------------------------------------
(* C6 *)

\* The help object of the claim: command "group cmd" with the one parameter -f --foo
C6Help == HelpObj("command", <<ParamObj(S_f_foo)>>)

\* The document as the claim writes it: the entry's keys are the keys of the
\* element of content
C6DocAsWritten == ("version" :> 1) @@ ("content" :> <<Flat(C6Entry)>>)

C6Loaded(doc) ==
    /\ InVersionedLoad /\ loader = V1 /\ help0 = C6Help
    /\ all_data = doc
    /\ pc \in {"done", "raised"}

C6Result ==
    /\ pc = "done"
    /\ help["short_summary"] = "S"
    /\ help["long_summary"] = "D"
    /\ help["parameters"][1]["short_summary"] = "FS"

\* C6, as stated: the document whose content is [{name: "group cmd", ...}]
\* loads into short_summary "S", long_summary "D" and the parameter's summary "FS".
C6_RoundTripAsWritten == C6Loaded(C6DocAsWritten) => C6Result

\* C6, as amended: the document whose content is [{command: {name: "group cmd",
\* ...}}], the entry being the value of a single-key mapping, loads into
\* short_summary "S", long_summary "D" and the parameter's summary "FS".
C6_RoundTripWrapped == C6Loaded(C6Doc) => C6Result

C6_Witness == C6Loaded(C6Doc) /\ C6Result /\ help["examples"] = <<HelpExample(C6Example)>>

----------------------------------------------------------------------------
(* C7 *)

\* No element of the content of d is, or wraps, an entry named cmd.
NoEntryNamed(d, cmd) ==
    Has(d, "content") =>
        \A i \in 1..Len(d["content"]) : \A k \in 1..Len(d["content"][i]) :
            LET it == d["content"][i][k]
            IN  /\ it.kind = "map" => ~(Has(it.map, "name") /\ it.map["name"] = cmd)
                /\ (it.kind = "str" /\ it.key = "name") => it.str # cmd

\* Every element of the content of d is a mapping whose values are mappings.
ContentOfMappings(d) ==
    Has(d, "content") =>
        \A i \in 1..Len(d["content"]) : \A k \in 1..Len(d["content"][i]) :
            d["content"][i][k].kind = "map"

NoDocumentFound == help_file_path = <<>>

NoRawDataNoEffect ==
    /\ pc # "raised" /\ err = NoError
    /\ data[V1] = None
    /\ ~is_applicable[V1]
    /\ calls[Len(calls)] = "load_raw_data"
    /\ help = help0

\* C7, as stated: with no help document, or a document without an entry named
\* as the command, load_raw_data raises nothing and leaves no raw data, the
\* loader is not applicable and the help object is untouched.
C7_NoEntryNoEffect ==
    (RawLoadedV1 /\ (NoDocumentFound
                      \/ (all_data # None /\ NoEntryNamed(all_data, help0["command"]))))
        => NoRawDataNoEffect

\* C7, as amended: the same, for a document in which the values of the
\* elements of content are mappings (on any other value the search for the
\* entry raises AttributeError).
C7_NoEntryNoEffectOfMappings ==
    (RawLoadedV1 /\ (NoDocumentFound
                      \/ (/\ all_data # None
                          /\ ContentOfMappings(all_data)
                          /\ NoEntryNamed(all_data, help0["command"]))))
        => NoRawDataNoEffect

\* versioned_load returned after reading a version 1 document whose only
\* entry is named otherwise.
C7_Witness ==
    /\ InVersionedLoad /\ RawLoadedV1 /\ pc = "done"
    /\ all_data # None /\ DocVersionIs(all_data, V1)
    /\ Has(all_data, "content") /\ all_data["content"] = <<Wrapped(OtherEntry)>>
    /\ NoRawDataNoEffect

----------------------------------------------------------------------------
(* C8 *)

\* The file's relative path: the name of its directory joined with its name
RelativePath(path) == <<path[Len(path) - 1], path[Len(path)]>>

\* C8: when the help file that was read is empty or malformed YAML, the load
\* has raised CLIError with the file's relative path in it, the loader has no
\* raw data and the help object is as it was.
C8_BrokenFileRaises ==
    (RawLoadedV1 /\ file_text \in {EmptyText, MalformedText}) =>
        /\ pc = "raised"
        /\ err.type = "CLIError"
        /\ err.path = RelativePath(help_file_path)
        /\ calls[Len(calls)] = "load_raw_data"
        /\ data[V1] = None
        /\ help = help0

\* versioned_load raised on the empty file vm/xhelp.yml.
C8_Witness ==
    /\ InVersionedLoad /\ RawLoadedV1 /\ pc = "raised"
    /\ file_text = EmptyText
    /\ err.type = "CLIError" /\ err.path = <<S_vm, S_xhelp_yml>>

====
